---- MODULE Spec2Model ----
(***************************************************************************)
(* Model of drive_autostream.py: configuration resolution, the Drive       *)
(* listing, the ffmpeg tee relay over the listing and the poll loop, with  *)
(* the interrupt (KeyboardInterrupt) as an asynchronous event.             *)
(***************************************************************************)
EXTENDS Integers, Sequences, FiniteSets, TLC

\* ------------------------------------------------------------------ bounds
\* Longest listing the Drive query returns in the model.
MaxFiles == 2
\* Number of listings (poll cycles) explored before the model stops polling.
MaxCycles == 2

\* ------------------------------------------------------------ python values
\* Python's None where a string may stand (an unset CLI flag or environment variable).
None == "<None>"

\* An optional integer is a set of at most one integer: {} is None, {n} is n.
NoInt == {}
SomeInt(n) == {n}
ValueOf(opt) == CHOOSE n \in opt : TRUE

\* Truthiness of an optional string: None and '' are both falsy.
Truthy(v) == v # None /\ v # ""

\* Python's `a or b` on optional strings.
Or(a, b) == IF Truthy(a) THEN a ELSE b

\* os.getenv(name, default): the variable's value when set, else the default.
GetEnv(env, name, default) == IF env[name] # None THEN env[name] ELSE default

\* Code points of the characters the model's strings are made of.
Ord ==
  [c \in {"-", ".", "0", "1", "2", "3", "4", "5", "6", "7", "8", "9", "a", "b", "c", "m", "p"} |->
     CASE c = "-" -> 45 [] c = "." -> 46
       [] c = "0" -> 48 [] c = "1" -> 49 [] c = "2" -> 50 [] c = "3" -> 51
       [] c = "4" -> 52 [] c = "5" -> 53 [] c = "6" -> 54 [] c = "7" -> 55
       [] c = "8" -> 56 [] c = "9" -> 57
       [] c = "a" -> 97 [] c = "b" -> 98 [] c = "c" -> 99
       [] c = "m" -> 109 [] c = "p" -> 112]

CharAt(s, i) == SubSeq(s, i, i)

\* Python's str < str: lexicographic by code point, a proper prefix is smaller.
RECURSIVE StrLessFrom(_, _, _)
StrLessFrom(s, t, i) ==
  IF i > Len(t) THEN FALSE
  ELSE IF i > Len(s) THEN TRUE
  ELSE IF Ord[CharAt(s, i)] < Ord[CharAt(t, i)] THEN TRUE
  ELSE IF Ord[CharAt(s, i)] > Ord[CharAt(t, i)] THEN FALSE
  ELSE StrLessFrom(s, t, i + 1)

StrLess(s, t) == StrLessFrom(s, t, 1)

IsDigit(c) == c \in {"0", "1", "2", "3", "4", "5", "6", "7", "8", "9"}

RECURSIVE AllDigitsFrom(_, _)
AllDigitsFrom(s, i) ==
  IF i > Len(s) THEN TRUE
  ELSE IsDigit(CharAt(s, i)) /\ AllDigitsFrom(s, i + 1)

RECURSIVE DigitsValue(_, _, _)
DigitsValue(s, i, acc) ==
  IF i > Len(s) THEN acc
  ELSE DigitsValue(s, i + 1, acc * 10 + (Ord[CharAt(s, i)] - Ord["0"]))

\* Whether int(s) succeeds: an optional minus sign, then one or more digits.
IntParses(s) ==
  IF Len(s) > 0 /\ CharAt(s, 1) = "-"
  THEN Len(s) > 1 /\ AllDigitsFrom(s, 2)
  ELSE Len(s) > 0 /\ AllDigitsFrom(s, 1)

\* int(s) for a string on which it succeeds.
IntOf(s) ==
  IF CharAt(s, 1) = "-" THEN 0 - DigitsValue(s, 2, 0) ELSE DigitsValue(s, 1, 0)

\* ------------------------------------------------------------ configuration
\* Paths that are regular files on the machine the model runs on.
FilesOnDisk == {"/key.json"}

\* Path.is_file() of the (expanded) service account path.
IsFile(path) == path \in FilesOnDisk

\* Raw command lines: each option's text as typed, None when the flag is absent.
CliFolderIds == {None, "F1"}
CliServiceAccountFiles == {None, "/key.json", "/missing.json"}
CliRefreshIntervals == {None, "abc", "0", "5"}
CliStreamKeys == {None, "abc"}
CliYoutubeUrls == {None, "rtmp://a.rtmp.youtube.com/live2/yk"}
CliTwitchUrls == {None}

\* Process environments: each variable's value, None when it is unset.
Envs ==
  [FOLDER_ID : {None, "F1"},
   SERVICE_ACCOUNT_FILE : {None, "/missing.json"},
   REFRESH_INTERVAL : {None, "abc", "-1", "7"},
   RTMP_STREAM_KEY : {None},
   YOUTUBE_URL : {None, ""},
   TWITCH_URL : {None, "rtmp://live.twitch.tv/app/tk"}]

\* The value of args before parse_args has run, and of config before from_sources.
NoArgs == [parsed |-> FALSE]
NoConfig == [resolved |-> FALSE]

\* argparse's type=int on --refresh-interval: whether the raw text converts.
ArgparseAccepts(raw) == raw = None \/ IntParses(raw)

\* The Namespace parse_args returns for an accepted command line.
ParsedArgs(folder, saf, rawInterval, key, yt, tw, once) ==
  [parsed |-> TRUE,
   folder_id |-> folder,
   service_account_file |-> saf,
   refresh_interval |-> IF rawInterval = None THEN NoInt ELSE SomeInt(IntOf(rawInterval)),
   stream_key |-> key,
   youtube_url |-> yt,
   twitch_url |-> tw,
   once |-> once]

\* _parse_refresh_interval: [ok, value] or [ok |-> FALSE, error].
ParseRefreshInterval(cli_value, env) ==
  LET refresh_interval ==
        IF cli_value # NoInt
        THEN [ok |-> TRUE, value |-> ValueOf(cli_value)]
        ELSE LET s == GetEnv(env, "REFRESH_INTERVAL", "600")
             IN  IF ~IntParses(s)
                 THEN [ok |-> FALSE, error |-> "REFRESH_INTERVAL must be an integer"]
                 ELSE [ok |-> TRUE, value |-> IntOf(s)]
  IN  IF ~refresh_interval.ok THEN refresh_interval
      ELSE IF refresh_interval.value <= 0
      THEN [ok |-> FALSE, error |-> "Refresh interval must be a positive integer"]
      ELSE refresh_interval

\* StreamConfig.from_sources: [ok, config] or [ok |-> FALSE, error].
FromSources(a, env) ==
  LET folder_id == Or(a.folder_id, env["FOLDER_ID"])
      service_account ==
        Or(a.service_account_file,
           GetEnv(env, "SERVICE_ACCOUNT_FILE", "/app/credentials.json"))
      interval == ParseRefreshInterval(a.refresh_interval, env)
  IN  IF ~Truthy(folder_id)
      THEN [ok |-> FALSE, error |-> "Missing Google Drive folder ID"]
      ELSE IF ~IsFile(service_account)
      THEN [ok |-> FALSE, error |-> "Service account file not found"]
      ELSE IF ~interval.ok
      THEN [ok |-> FALSE, error |-> interval.error]
      ELSE [ok |-> TRUE,
            config |->
              [resolved |-> TRUE,
               folder_id |-> folder_id,
               service_account_file |-> service_account,
               refresh_interval |-> interval.value,
               stream_key |-> Or(a.stream_key, GetEnv(env, "RTMP_STREAM_KEY", "stream")),
               youtube_url |-> Or(Or(a.youtube_url, env["YOUTUBE_URL"]), None),
               twitch_url |-> Or(Or(a.twitch_url, env["TWITCH_URL"]), None)]]

\* ------------------------------------------------------------ output targets
\* StreamConfig.local_rtmp_url
LocalRtmpUrl(c) == "rtmp://localhost/live/" \o c.stream_key

\* tee_targets with the external endpoints appended in the other order.
TeeTargetsTwitchFirst(c) ==
  <<LocalRtmpUrl(c)>>
    \o (IF Truthy(c.twitch_url) THEN <<c.twitch_url>> ELSE <<>>)
    \o (IF Truthy(c.youtube_url) THEN <<c.youtube_url>> ELSE <<>>)

\* StreamConfig.tee_targets
TeeTargets(c) ==
  <<LocalRtmpUrl(c)>>
    \o (IF Truthy(c.youtube_url) THEN <<c.youtube_url>> ELSE <<>>)
    \o (IF Truthy(c.twitch_url) THEN <<c.twitch_url>> ELSE <<>>)

\* '|'.join(targets)
RECURSIVE Join(_, _)
Join(sep, seq) ==
  IF seq = <<>> THEN ""
  ELSE IF Len(seq) = 1 THEN seq[1]
  ELSE seq[1] \o sep \o Join(sep, Tail(seq))

\* build_tee_output joining the targets with ',' instead of '|'.
BuildTeeOutputComma(targets) == "[f=flv]" \o Join(",", targets)

\* build_tee_output
BuildTeeOutput(targets) == "[f=flv]" \o Join("|", targets)

\* ------------------------------------------------------------------ listing
\* Entries a Drive response may hold: a dict with an id and a name, a dict
\* without a name, a dict without an id.
DriveEntries ==
  {[id |-> "1", name |-> "b.mp4"],
   [id |-> "2", name |-> "a.mp4"],
   [id |-> "3"],
   [name |-> "a.mp4"]}

HasKey(entry, key) == key \in DOMAIN entry

\* entry.get('name', '')
NameKey(entry) == IF HasKey(entry, "name") THEN entry.name ELSE ""

\* One step of list.sort (stable): e goes after every element whose key is
\* not greater than its own.
RECURSIVE InsertByName(_, _)
InsertByName(sorted, e) ==
  IF sorted = <<>> THEN <<e>>
  ELSE IF StrLess(NameKey(e), NameKey(Head(sorted)))
  THEN <<e>> \o sorted
  ELSE <<Head(sorted)>> \o InsertByName(Tail(sorted), e)

RECURSIVE SortFrom(_, _, _)
SortFrom(seq, i, acc) ==
  IF i > Len(seq) THEN acc ELSE SortFrom(seq, i + 1, InsertByName(acc, seq[i]))

\* fetch_drive_videos trusting the query's orderBy, without the sort.
SortByNameSkipped(seq) == seq

\* files.sort(key=lambda entry: entry.get('name', ''))
SortByName(seq) == SortFrom(seq, 1, <<>>)

RECURSIVE SeqsUpTo(_, _)
SeqsUpTo(S, n) ==
  IF n = 0 THEN {<<>>}
  ELSE LET shorter == SeqsUpTo(S, n - 1)
       IN  shorter \cup {Append(q, e) : q \in shorter, e \in S}

\* What .execute() of the files().list() request can do: return a body with a
\* 'files' list (in any order), return a body without one, raise HttpError
\* (an error response from the API), raise another exception (the transport:
\* a timeout, a refused connection, a failed token refresh).
DriveResponses ==
  {[kind |-> "body", files |-> q] : q \in SeqsUpTo(DriveEntries, MaxFiles)}
    \cup {[kind |-> "body_without_files"], [kind |-> "HttpError"], [kind |-> "TransportError"]}

\* fetch_drive_videos: the list it returns, or the exception that leaves it.
FetchDriveVideos(response) ==
  IF response.kind = "HttpError"
  THEN [raised |-> FALSE, files |-> <<>>, warned |-> TRUE]
  ELSE IF response.kind = "TransportError"
  THEN [raised |-> TRUE, files |-> <<>>, warned |-> FALSE]
  ELSE IF response.kind = "body_without_files"
  THEN [raised |-> FALSE, files |-> <<>>, warned |-> FALSE]
  ELSE [raised |-> FALSE, files |-> SortByName(response.files), warned |-> FALSE]

\* ------------------------------------------------------------------- state
VARIABLES
  pc,        \* the statement the main thread is at ("exit": the process has ended)
  args,      \* main's args (argparse Namespace)
  config,    \* main's config (StreamConfig)
  files,     \* run's files: the listing of the current poll cycle
  idx,       \* stream_videos' index (1-based) of the file being relayed
  result,    \* how the last ffmpeg invocation ended
  log,       \* the last line written to the log
  exitCode,  \* the process exit status, an optional integer
  ending,    \* how the process ended
  interrupted, \* an interrupt (SIGINT, KeyboardInterrupt) has been delivered
  listings,  \* history: number of fetch_drive_videos calls so far
  passes,    \* history: number of stream_videos calls so far
  sleeps,    \* history: time.sleep calls since the last listing
  slept,     \* history: the argument of the last time.sleep call
  listed,    \* history: what the last listing request did
  invoked,   \* history: the entries ffmpeg was started for in this cycle
  teeArg     \* history: the tee argument of the last ffmpeg command line

vars ==
  <<pc, args, config, files, idx, result, log, exitCode, ending, interrupted,
    listings, passes, sleeps, slept, listed, invoked, teeArg>>

history == <<listings, passes, sleeps, slept, listed, invoked, teeArg>>

Line(level, msg) == [level |-> level, msg |-> msg]

\* The statements inside run's try block (lines 224-250).
TryPcs == {"fetch", "check", "stream", "ffmpeg", "streamed", "sleep_empty", "sleep_done"}

Init ==
  /\ pc = "parse_args"
  /\ args = NoArgs
  /\ config = NoConfig
  /\ files = <<>>
  /\ idx = 0
  /\ result = "none"
  /\ log = Line("NONE", "")
  /\ exitCode = NoInt
  /\ ending = "running"
  /\ interrupted = FALSE
  /\ listings = 0
  /\ passes = 0
  /\ sleeps = 0
  /\ slept = NoInt
  /\ listed = [kind |-> "none"]
  /\ invoked = <<>>
  /\ teeArg = None

\* The process ends with the given status.
Exit(code, how) ==
  /\ pc' = "exit"
  /\ exitCode' = SomeInt(code)
  /\ ending' = how

\* main returns 1 from one of its except clauses (lines 268-273).
StartupFailure(level, msg) ==
  /\ log' = Line(level, msg)
  /\ Exit(1, "returned")

\* An exception no handler catches: the interpreter prints the traceback and
\* exits with status 1.
Uncaught(what) ==
  /\ log' = log
  /\ Exit(1, what)

\* ------------------------------------------------------------------- main
\* parser.parse_args(argv): argparse rejects a --refresh-interval that int()
\* does not convert by printing the usage and exiting with status 2.
ParseArgs ==
  /\ pc = "parse_args"
  /\ \E folder \in CliFolderIds, saf \in CliServiceAccountFiles,
        rawInterval \in CliRefreshIntervals, key \in CliStreamKeys,
        yt \in CliYoutubeUrls, tw \in CliTwitchUrls, once \in BOOLEAN :
       IF ArgparseAccepts(rawInterval)
       THEN /\ args' = ParsedArgs(folder, saf, rawInterval, key, yt, tw, once)
            /\ pc' = "ensure_ffmpeg"
            /\ UNCHANGED <<exitCode, ending>>
       ELSE /\ args' = args
            /\ Exit(2, "argparse_exit")
  /\ UNCHANGED <<config, files, idx, result, log, interrupted>>
  /\ UNCHANGED history

\* ensure_ffmpeg_available()
EnsureFfmpegAvailable ==
  /\ pc = "ensure_ffmpeg"
  /\ \E onPath \in BOOLEAN :
       IF onPath
       THEN /\ pc' = "from_sources"
            /\ UNCHANGED <<log, exitCode, ending>>
       ELSE StartupFailure("ERROR", "Configuration error: ffmpeg executable not found on PATH")
  /\ UNCHANGED <<args, config, files, idx, result, interrupted>>
  /\ UNCHANGED history

\* config = StreamConfig.from_sources(args)
ResolveConfig ==
  /\ pc = "from_sources"
  /\ \E env \in Envs :
       LET r == FromSources(args, env)
       IN  IF r.ok
           THEN /\ config' = r.config
                /\ pc' = "load_drive_service"
                /\ UNCHANGED <<log, exitCode, ending>>
           ELSE /\ config' = config
                /\ StartupFailure("ERROR", "Configuration error: " \o r.error)
  /\ UNCHANGED <<args, files, idx, result, interrupted>>
  /\ UNCHANGED history

\* drive_service = load_drive_service(config): the key file may not hold a
\* usable service account key.
LoadDriveService ==
  /\ pc = "load_drive_service"
  /\ \E usable \in BOOLEAN :
       IF usable
       THEN /\ pc' = "run"
            /\ UNCHANGED <<log, exitCode, ending>>
       ELSE StartupFailure("ERROR", "Unable to initialise Google Drive service")
  /\ UNCHANGED <<args, config, files, idx, result, interrupted>>
  /\ UNCHANGED history

\* -------------------------------------------------------------------- run
\* run re-listing at once after an empty listing, the sleep left out.
AfterEmptyNoSleep(run_once) == IF run_once THEN "return" ELSE "fetch"

\* Where run goes after an empty listing.
AfterEmpty(run_once) == IF run_once THEN "return" ELSE "sleep_empty"

\* run without the single-pass break after the playlist.
AfterPlaylistNoBreak(run_once) == "sleep_done"

\* run re-listing at once after the playlist, the sleep left out.
AfterPlaylistNoSleep(run_once) == IF run_once THEN "return" ELSE "fetch"

\* Where run goes after stream_videos has returned.
AfterPlaylist(run_once) == IF run_once THEN "return" ELSE "sleep_done"

\* run's first statement, before its try block.
RunStart ==
  /\ pc = "run"
  /\ log' = Line("INFO", "Drive Auto-Stream initialised")
  /\ pc' = "fetch"
  /\ UNCHANGED <<args, config, files, idx, result, exitCode, ending, interrupted>>
  /\ UNCHANGED history

\* files = fetch_drive_videos(drive_service, config.folder_id)
Fetch ==
  /\ pc = "fetch"
  /\ listings < MaxCycles
  /\ listings' = listings + 1
  /\ sleeps' = 0
  /\ invoked' = <<>>
  /\ \E response \in DriveResponses :
       LET r == FetchDriveVideos(response)
       IN  /\ listed' = response
           /\ IF r.raised
              THEN /\ files' = files
                   /\ Uncaught("uncaught_listing_error")
              ELSE /\ files' = r.files
                   /\ log' = IF r.warned
                             THEN Line("WARNING", "Failed to retrieve Drive files")
                             ELSE log
                   /\ pc' = "check"
                   /\ UNCHANGED <<exitCode, ending>>
  /\ UNCHANGED <<args, config, idx, result, interrupted, passes, slept, teeArg>>

\* if not files: ... / stream_videos(files, config)
CheckFiles ==
  /\ pc = "check"
  /\ IF files = <<>>
     THEN /\ log' = Line("WARNING", "No videos found")
          /\ IF AfterEmpty(args.once) = "return"
             THEN Exit(0, "returned")
             ELSE /\ pc' = AfterEmpty(args.once)
                  /\ UNCHANGED <<exitCode, ending>>
          /\ UNCHANGED <<idx, passes>>
     ELSE /\ log' = Line("INFO", "Found videos. Beginning broadcast")
          /\ pc' = "stream"
          /\ idx' = 1
          /\ passes' = passes + 1
          /\ UNCHANGED <<exitCode, ending>>
  /\ UNCHANGED <<args, config, files, result, interrupted>>
  /\ UNCHANGED <<listings, sleeps, slept, listed, invoked, teeArg>>

\* The head of stream_videos' loop body up to subprocess.run: file_info['id']
\* raises KeyError for an entry without an id.
StartFfmpeg ==
  /\ pc = "stream"
  /\ IF ~HasKey(files[idx], "id")
     THEN /\ Uncaught("uncaught_KeyError")
          /\ UNCHANGED <<invoked, teeArg>>
     ELSE /\ log' = Line("INFO", "Streaming")
          /\ invoked' = Append(invoked, files[idx])
          /\ teeArg' = BuildTeeOutput(TeeTargets(config))
          /\ pc' = "ffmpeg"
          /\ UNCHANGED <<exitCode, ending>>
  /\ UNCHANGED <<args, config, files, idx, result, interrupted>>
  /\ UNCHANGED <<listings, passes, sleeps, slept, listed>>

\* Where stream_videos goes after the invocation for file i of n has ended.
AfterInvocation(i, n) == IF i < n THEN [pc |-> "stream", idx |-> i + 1]
                         ELSE [pc |-> "streamed", idx |-> i]

\* subprocess.run returns (exit status 0 or not) or raises (the executable is
\* gone, an OS error); stream_videos logs and goes on to the next file.
FfmpegEnds ==
  /\ pc = "ffmpeg"
  /\ \E how \in {"exit_0", "exit_nonzero", "raised"} :
       /\ result' = how
       /\ log' = CASE how = "exit_0" -> log
                   [] how = "exit_nonzero" -> Line("WARNING", "ffmpeg exited with code")
                   [] how = "raised" -> Line("ERROR", "Error streaming")
  /\ pc' = AfterInvocation(idx, Len(files)).pc
  /\ idx' = AfterInvocation(idx, Len(files)).idx
  /\ UNCHANGED <<args, config, files, exitCode, ending, interrupted>>
  /\ UNCHANGED history

\* stream_videos has returned (its locals are gone): if run_once: break, else
\* the "Playlist done" line.
PlaylistDone ==
  /\ pc = "streamed"
  /\ IF AfterPlaylist(args.once) = "return"
     THEN /\ log' = Line("INFO", "Single-pass run complete")
          /\ Exit(0, "returned")
     ELSE /\ log' = Line("INFO", "Playlist done. Rechecking")
          /\ pc' = AfterPlaylist(args.once)
          /\ UNCHANGED <<exitCode, ending>>
  /\ idx' = 0
  /\ result' = "none"
  /\ UNCHANGED <<args, config, files, interrupted>>
  /\ UNCHANGED history

\* time.sleep(config.refresh_interval), at line 234 and at line 250
Sleep ==
  /\ pc \in {"sleep_empty", "sleep_done"}
  /\ sleeps' = sleeps + 1
  /\ slept' = SomeInt(config.refresh_interval)
  /\ pc' = "fetch"
  /\ UNCHANGED <<args, config, files, idx, result, log, exitCode, ending, interrupted>>
  /\ UNCHANGED <<listings, passes, listed, invoked, teeArg>>

\* ---------------------------------------------------------------- interrupt
\* Exit statuses of an interpreter that ends on an unhandled
\* KeyboardInterrupt: 1, or death by SIGINT (128 + 2 to the shell).
UnhandledInterruptStatuses == {1, 130}

\* KeyboardInterrupt raised in the main thread. Inside run's try block the
\* except clause at line 251 logs, run returns and main returns 0; main's
\* `except Exception` does not catch it, and nothing does before the try.
Interrupt ==
  /\ pc # "exit"
  /\ interrupted' = TRUE
  /\ IF pc \in TryPcs
     THEN /\ log' = Line("INFO", "Received interrupt. Shutting down cleanly")
          /\ Exit(0, "returned")
     ELSE /\ log' = log
          /\ \E code \in UnhandledInterruptStatuses : Exit(code, "uncaught_interrupt")
  /\ UNCHANGED <<args, config, files, idx, result>>
  /\ UNCHANGED history

Next ==
  \/ ParseArgs
  \/ EnsureFfmpegAvailable
  \/ ResolveConfig
  \/ LoadDriveService
  \/ RunStart
  \/ Fetch
  \/ CheckFiles
  \/ StartFfmpeg
  \/ FfmpegEnds
  \/ PlaylistDone
  \/ Sleep
  \/ Interrupt

Spec == Init /\ [][Next]_vars

\* The main thread always takes its next step: the blocking calls (the listing
\* request, the ffmpeg process, time.sleep) return.
FairSpec == Spec /\ WF_vars(Next)

\* ------------------------------------------------------------------ claims
RunOnce == args.parsed /\ args.once
\* The ways the process ends on an exception that escapes run.
UncaughtInRun == {"uncaught_listing_error", "uncaught_KeyError"}
Continuous == args.parsed /\ ~args.once

\* Names never decrease along a sequence of entries.
NameAscending(seq) ==
  \A i \in 1..Len(seq) : \A j \in i..Len(seq) :
    ~StrLess(NameKey(seq[j]), NameKey(seq[i]))

\* The number of positions of seq holding e.
Count(seq, e) == Cardinality({i \in 1..Len(seq) : seq[i] = e})

\* The N entries of the last listing, when it returned any.
ListedFiles == IF listed.kind = "body" THEN listed.files ELSE <<>>

\* C1: in a cycle whose listing returned N files, ffmpeg is started once per
\* file in ascending name order, whatever each invocation's outcome: the files
\* started so far are always the first ones of the name-sorted listing, each
\* (without skipping or repeating one), and when the pass over the listing has
\* ended they are all N of them.
C1_OncePerFileInNameOrder ==
  /\ ending # "uncaught_listing_error" =>
       /\ Len(files) = Len(ListedFiles)
       /\ \A e \in DriveEntries : Count(files, e) = Count(ListedFiles, e)
  /\ NameAscending(files)
  /\ Len(invoked) <= Len(files)
  /\ \A i \in 1..Len(invoked) : invoked[i] = files[i]
  /\ pc = "stream" => Len(invoked) = idx - 1
  /\ pc = "ffmpeg" => Len(invoked) = idx
  /\ pc \in {"streamed", "sleep_done"} => invoked = files /\ Len(invoked) = Len(ListedFiles)

\* C1 witness: the first of two files failed and ffmpeg runs for the second,
\* the listing having come back in descending name order.
C1_Witness ==
  /\ pc = "ffmpeg" /\ idx = 2 /\ result \in {"exit_nonzero", "raised"}
  /\ listed.kind = "body"
  /\ listed.files = <<[id |-> "1", name |-> "b.mp4"], [id |-> "2", name |-> "a.mp4"]>>
  /\ invoked = <<[id |-> "2", name |-> "a.mp4"], [id |-> "1", name |-> "b.mp4"]>>

\* C2 (safety part): in single-pass mode run lists at most once, streams at
\* most one pass and never sleeps, and a run that ended without an interrupt
\* has listed exactly once.
C2_SinglePassSafe ==
  RunOnce =>
    /\ listings <= 1 /\ passes <= 1
    /\ sleeps = 0 /\ slept = NoInt
    /\ pc \notin {"sleep_empty", "sleep_done"}
    /\ (pc = "exit" /\ ~interrupted /\ (exitCode = SomeInt(0) \/ ending \in UncaughtInRun))
         => listings = 1

\* C2: with single-pass mode on, run performs exactly one listing and at most
\* one streaming pass and then terminates, without sleeping or listing again.
C2_SinglePassTerminates ==
  /\ []C2_SinglePassSafe
  /\ (RunOnce ~> pc = "exit")

\* C2 witness: a single-pass run over a non-empty listing has returned.
C2_Witness ==
  /\ RunOnce /\ pc = "exit" /\ ~interrupted /\ ending = "returned"
  /\ listings = 1 /\ passes = 1 /\ Len(invoked) = 2
  /\ log = Line("INFO", "Single-pass run complete")

\* C3 (as claimed): an interrupt delivered at any point, startup included, ends
\* the process with status 0 through run's shutdown path, the "Received
\* interrupt" line being the last one logged.
C3_InterruptExitsZero ==
  interrupted =>
    /\ pc = "exit"
    /\ exitCode = SomeInt(0)
    /\ ending = "returned"
    /\ log = Line("INFO", "Received interrupt. Shutting down cleanly")

\* C4 (as claimed): every failure of the listing request, an HTTP error
\* response or any other, is logged as a warning and becomes an empty listing;
\* none ends the process.
C4_ListingErrorsContained ==
  listed.kind \in {"HttpError", "TransportError"} =>
    /\ ending \notin UncaughtInRun
    /\ pc = "check" => files = <<>> /\ log = Line("WARNING", "Failed to retrieve Drive files")

\* C5 (state part): ffmpeg is never started for an empty listing and an empty
\* listing never raises.
C5_EmptyListingIdle ==
  /\ pc \in {"stream", "ffmpeg", "streamed", "sleep_done"} => files # <<>>
  /\ (files = <<>> /\ listings > 0 /\ listed.kind # "TransportError") =>
       /\ invoked = <<>>
       /\ ending \notin UncaughtInRun

\* C5 (step part): unless an interrupt arrives, the step after an empty listing
\* goes to the sleep (to a return with status 0 in single-pass mode), the sleep
\* is one time.sleep of the refresh interval, and the step after it lists.
C5_EmptyListingStep ==
  ~interrupted' =>
    /\ (pc = "check" /\ files = <<>>) =>
         /\ log' = Line("WARNING", "No videos found")
         /\ IF args.once
            THEN pc' = "exit" /\ exitCode' = SomeInt(0) /\ sleeps' = 0
            ELSE pc' = "sleep_empty"
    /\ pc = "sleep_empty" =>
         /\ pc' = "fetch"
         /\ sleeps' = sleeps + 1
         /\ slept' = SomeInt(config.refresh_interval)
    /\ (pc = "fetch" /\ sleeps > 0) => listings' = listings + 1

\* C5: an empty listing never raises and never starts ffmpeg; after it the loop
\* sleeps for the refresh interval and lists again, or ends in single-pass mode.
C5_EmptyListingWaitsAndRetries ==
  /\ []C5_EmptyListingIdle
  /\ [][C5_EmptyListingStep]_vars

\* C5 witness: the second listing has been made after an empty first one and
\* the sleep that followed it.
C5_Witness ==
  /\ pc = "check" /\ listings = 2 /\ passes = 0
  /\ slept = SomeInt(config.refresh_interval)
  /\ invoked = <<>>

\* C6 (as claimed): every invalid configuration ends the process with status 1
\* before any listing or ffmpeg invocation, and the poll loop only runs with a
\* positive refresh interval.
C6_InvalidConfigExitsOne ==
  /\ (pc = "exit" /\ ~config.resolved /\ ~interrupted) =>
       exitCode = SomeInt(1) /\ listings = 0 /\ passes = 0 /\ invoked = <<>>
  /\ pc \in TryPcs => config.refresh_interval > 0

\* C7 (as claimed): in continuous mode, once the loop has started, the process
\* ends only through an interrupt, and each per-file error leaves a log line.
C7_OnlyInterruptEndsLoop ==
  /\ (Continuous /\ pc = "exit" /\ listings > 0) => interrupted
  /\ (pc \in {"stream", "streamed"} /\ result = "exit_nonzero") => log.level = "WARNING"
  /\ (pc \in {"stream", "streamed"} /\ result = "raised") => log.level = "ERROR"

\* C8: the relay targets are the local endpoint rtmp://localhost/live/<key>,
\* then the YouTube URL if configured, then the Twitch URL if configured, and
\* nothing else.
C8_TargetsLocalFirstInOrder ==
  config.resolved =>
    LET t == TeeTargets(config)
        y == config.youtube_url # None
        w == config.twitch_url # None
    IN  /\ Len(t) = 1 + (IF y THEN 1 ELSE 0) + (IF w THEN 1 ELSE 0)
        /\ t[1] = "rtmp://localhost/live/" \o config.stream_key
        /\ y => t[2] = config.youtube_url
        /\ w => t[Len(t)] = config.twitch_url
        /\ (y /\ w) => Len(t) = 3

\* C8 witness: ffmpeg runs with both external endpoints configured.
C8_Witness ==
  /\ pc = "ffmpeg"
  /\ config.youtube_url = "rtmp://a.rtmp.youtube.com/live2/yk"
  /\ config.twitch_url = "rtmp://live.twitch.tv/app/tk"

\* C9 (as claimed): the tee argument of the ffmpeg command line is
\* "[format=flv]" followed by the targets joined with "|".
C9_FormatPrefix ==
  pc = "ffmpeg" => teeArg = "[format=flv]" \o Join("|", TeeTargets(config))

\* C9 (amended): the tee argument of the ffmpeg command line is "[f=flv]"
\* followed by the target URLs joined with "|"; stream key "abc" without
\* external endpoints gives "[f=flv]rtmp://localhost/live/abc".
C9_TeeArgument ==
  pc = "ffmpeg" =>
    LET y == config.youtube_url # None
        w == config.twitch_url # None
    IN  /\ teeArg = "[f=flv]rtmp://localhost/live/" \o config.stream_key
                      \o (IF y THEN "|" \o config.youtube_url ELSE "")
                      \o (IF w THEN "|" \o config.twitch_url ELSE "")
        /\ (config.stream_key = "abc" /\ ~y /\ ~w) =>
             teeArg = "[f=flv]rtmp://localhost/live/abc"

\* C9 witness: ffmpeg runs with stream key "abc" and no external endpoint.
C9_Witness ==
  /\ pc = "ffmpeg"
  /\ config.stream_key = "abc"
  /\ config.youtube_url = None /\ config.twitch_url = None
  /\ teeArg = "[f=flv]rtmp://localhost/live/abc"

\* C10: in continuous mode every listing after the first follows exactly one
\* sleep of the refresh interval since the previous listing, and the sleep
\* after a non-empty listing starts only when ffmpeg has been started for and
\* has returned from every file of it.
C10_OneSleepBetweenListings ==
  Continuous =>
    /\ pc = "fetch" =>
         IF listings = 0
         THEN sleeps = 0 /\ slept = NoInt
         ELSE sleeps = 1 /\ slept = SomeInt(config.refresh_interval)
    /\ pc \in {"check", "stream", "ffmpeg", "streamed", "sleep_empty", "sleep_done"} =>
         sleeps = 0
    /\ pc = "sleep_done" =>
         /\ files # <<>> /\ invoked = files
         /\ idx = 0 /\ result = "none"
    /\ pc = "sleep_empty" => files = <<>>

\* C10 witness: the loop is about to list again after a two-file playlist and
\* the sleep that followed it.
C10_Witness ==
  /\ Continuous /\ pc = "fetch" /\ listings = 1 /\ sleeps = 1
  /\ Len(invoked) = 2

====
